---- MODULE Spec2Model ----
(***************************************************************************)
(* Operation lifecycle of gcloudsql: a Connection whose mutating calls     *)
(* (EnableSSL, DisableSSL, WhitelistIP, BlacklistIP, SetUserPassword)      *)
(* submit a PATCH/PUT and poll the returned operation until it is "DONE",  *)
(* and the AccessToken with its expiry bookkeeping.                        *)
(*                                                                         *)
(* The Connection is the one of src/auth.go lines 74-392.  The two         *)
(* ParseHTTPRequest bodies of src/connector.go (lines 335-358, which only  *)
(* logs a non-200 status, and lines 461-477, which returns an error) are   *)
(* both modelled; parseVariant says which one the build links.             *)
(***************************************************************************)
EXTENDS Integers, Sequences, FiniteSets, TLC

VARIABLES
    pc,            \* pc[p]: where caller p stands inside its call
    call,          \* call[p]: the call p is making (or made last)
    err,           \* err[p]: the error value of p's call ("none" while running)
    lock,          \* c.lock: 0 when free, else the caller holding it
    response,      \* c.response
    httpRequest,   \* c.httpRequest, NoRequest while nil
    pollURL,       \* pollURL[p]: request.urlText captured by waitUntilDone
    networks,      \* c.Instance.Settings.IPConfiguration.AuthorizedNetworks
    trace,         \* trace[p]: what p's current call did on the wire, and its sleeps
    pollLog,       \* pollLog[p]: what each GET of p's current call came back with
    subReply,      \* subReply[p]: the reply to the mutating request of p's current call
    nCalls,        \* number of calls started on the Connection
    prev,          \* the call that returned last on the Connection, and its error
    parseVariant,  \* which ParseHTTPRequest is linked
    now,           \* the clock, in seconds since the zero time
    token,         \* the AccessToken, NoToken before GenerateAccessToken
    ticks,         \* number of clock steps taken
    ctor,          \* NewConnection: where it stands, and the errors it has seen
    render,        \* the last TemplatedHTTPRequest given to NewHTTPRequest, and the result
    ip,            \* the last address list given to GetPublicIP, and the result
    conns          \* two Connections of separate NewConnection calls, their mutexes, a caller on each

vars == <<pc, call, err, lock, response, httpRequest, pollURL, networks, trace, pollLog,
          subReply, nCalls, prev, parseVariant, now, token, ticks, ctor, render, ip, conns>>

connVars == <<pc, call, err, lock, response, httpRequest, pollURL, networks, trace, pollLog,
              subReply, nCalls, prev, parseVariant>>

tokenVars == <<now, token, ticks>>

ctorVars == <<ctor>>

pureVars == <<render, ip>>

twoVars == <<conns>>

(***************************************************************************)
(* Bounds                                                                  *)
(***************************************************************************)
MaxCalls == 2        \* calls started on the Connection, one after another
MaxPolls == 3        \* sleep-and-GET rounds of one call, calls one after another
MaxConcPolls == 1    \* the same, callers running at the same time
MaxNets == 2         \* entries of the instance's authorized-network list
MaxTicks == 5        \* clock steps
MaxNewCalls == 1     \* calls made on a Connection whose construction is followed
MaxAddrs == 3        \* entries of the instance's address list

Callers == {1, 2}

(***************************************************************************)
(* Data                                                                    *)
(***************************************************************************)
StatusOK == 200
HTTPCodes == {StatusOK, 500}

Absent == "<absent>"
BadJSON == "<not json>"
NoLink == ""

\* The selfLink the remote side gives the operation created by the n-th call.
Link(n) == "operations/" \o ToString(n)

NetValues == {"1.2.3.4/32", "5.6.7.8/32"}
NetNames == {"home"}
CallValues == {"1.2.3.4/32"}
AclKind == "sql#aclEntry"

AuthorizedNetwork == [Value : NetValues, Name : NetNames, Kind : {AclKind}]

EmptyResponse == [Status |-> "", SelfLink |-> NoLink]

LockedOps == {"EnableSSL", "DisableSSL", "WhitelistIP", "BlacklistIP"}

NoCall == [op |-> "none", name |-> "", value |-> "", id |-> 0]
NoPrev == [op |-> "none", value |-> "", err |-> "none"]

Calls ==
    {[op |-> o, name |-> "", value |-> ""] : o \in {"EnableSSL", "DisableSSL"}}
    \cup {[op |-> "WhitelistIP", name |-> "office", value |-> v] : v \in CallValues}
    \cup {[op |-> "BlacklistIP", name |-> "", value |-> v] : v \in CallValues}
    \cup {[op |-> "SetUserPassword", name |-> "user", value |-> "secret"]}

RECURSIVE SeqsUpTo(_, _)
SeqsUpTo(S, n) ==
    IF n = 0 THEN {<<>>}
    ELSE LET shorter == SeqsUpTo(S, n - 1)
         IN  shorter \cup {Append(s, x) : s \in {t \in shorter : Len(t) = n - 1}, x \in S}

(***************************************************************************)
(* Transport Executor: ParseHTTPRequest                                    *)
(***************************************************************************)
\* A reply of the remote side: the connection may fail; otherwise a status
\* code and a body, which is either not JSON, or an operation resource, or a
\* JSON object with none of the fields of Response (an error document).
Docs(link) ==
    [Status : {"PENDING", "RUNNING", "DONE"}, SelfLink : {link}]
    \cup {[Status |-> Absent, SelfLink |-> Absent]}

\* A body that does not parse as JSON.
NoDoc == [Status |-> BadJSON, SelfLink |-> BadJSON]

Replies(link) ==
    {[net |-> "fail", code |-> 0, body |-> NoDoc]}
    \cup [net : {"ok"}, code : HTTPCodes, body : {NoDoc} \cup Docs(link)]

\* No reply yet.
NoReply == [net |-> "none", code |-> 0, body |-> NoDoc]

\* json.Unmarshal into an existing struct: a field present in the document
\* overwrites, an absent one leaves the old value in place.
Unmarshal(doc, old) ==
    [f \in DOMAIN old |-> IF doc[f] = Absent THEN old[f] ELSE doc[f]]

\* The error ParseHTTPRequest returns ("nil" for none).
ParseErr(variant, reply) ==
    IF reply.net = "fail" THEN "TransportError"
    ELSE IF variant = "returning" /\ reply.code # StatusOK THEN "HTTPStatusError"
    ELSE IF reply.body = NoDoc THEN "DecodeError"
    ELSE "nil"

\* What the caller of ParseHTTPRequest sees of a reply: the error, or the
\* status field of the document.
Observed(variant, reply) ==
    IF ParseErr(variant, reply) = "nil" THEN reply.body.Status ELSE "error"

\* The value of *v after ParseHTTPRequest(request, v).
ParseInto(variant, reply, old) ==
    IF ParseErr(variant, reply) = "nil" THEN Unmarshal(reply.body, old) ELSE old

(***************************************************************************)
(* Request building                                                        *)
(***************************************************************************)
\* instanceRequestBodyTemplate prints the value and the name of each entry.
RenderNetworks(list) ==
    [i \in 1..Len(list) |-> [value |-> list[i].Value, name |-> list[i].Name]]

\* WhitelistIP: the current list with the new entry appended.
WhitelistNetworks(current, name, value) ==
    Append(current, [Value |-> value, Name |-> name, Kind |-> AclKind])

\* A BlacklistIP that stops at the first entry it drops.
RECURSIVE BlacklistFirstOnly(_, _)
BlacklistFirstOnly(current, value) ==
    IF current = <<>> THEN <<>>
    ELSE IF Head(current).Value = value THEN Tail(current)
    ELSE <<Head(current)>> \o BlacklistFirstOnly(Tail(current), value)

\* BlacklistIP: the entries of the current list whose value differs.
BlacklistNetworks(current, value) ==
    SelectSeq(current, LAMBDA n : n.Value # value)

Method(c) == IF c.op = "SetUserPassword" THEN "PUT" ELSE "PATCH"

\* The rendered body of the mutating request of call c.
Body(c, current) ==
    CASE c.op = "EnableSSL" -> [kind |-> "ssl", requireSsl |-> "true"]
      [] c.op = "DisableSSL" -> [kind |-> "ssl", requireSsl |-> "false"]
      [] c.op = "WhitelistIP" ->
            [kind |-> "acl",
             nets |-> RenderNetworks(WhitelistNetworks(current, c.name, c.value))]
      [] c.op = "BlacklistIP" ->
            [kind |-> "acl", nets |-> RenderNetworks(BlacklistNetworks(current, c.value))]
      [] c.op = "SetUserPassword" ->
            [kind |-> "pw", name |-> c.name, password |-> c.value]

MutatingRequest(c, current) ==
    [m |-> Method(c), url |-> "instance", body |-> Body(c, current)]

NoBody == [kind |-> "none"]

GetRequest(link) == [m |-> "GET", url |-> link, body |-> NoBody]

NoRequest == [m |-> "nil", url |-> NoLink, body |-> NoBody]

SleepEvent == [m |-> "sleep", url |-> NoLink, body |-> NoBody]

(***************************************************************************)
(* Credential Holder                                                       *)
(***************************************************************************)
\* The zero value of time.Time, the value of a field that is never assigned.
ZeroTime == 0

ExpiresInValues == {2, 3600}
ClockSteps == {1, 2, 3599}

\* AccessToken{}
NoToken == [token |-> "", expireTime |-> ZeroTime, ExpiresIn |-> 0, issuedAt |-> 0]

\* GenerateAccessToken: the token printed by gcloud and the tokeninfo fields
\* parsed into the struct.  Neither variant calls getExpireTime or assigns
\* expireTime, which keeps its zero value.  issuedAt is the instant of the
\* call (bookkeeping of the model, not a field of the struct).
NewAccessToken(expiresIn, t) ==
    [token |-> "ya29", expireTime |-> ZeroTime, ExpiresIn |-> expiresIn, issuedAt |-> t]

\* IsExpired: at.expireTime.Before(time.Now())
IsExpired(at, t) == at.expireTime < t

(***************************************************************************)
(* Request Builder: the templates and NewHTTPRequest                       *)
(***************************************************************************)
\* A template is text with actions in it: literal pieces and {{.Field}}
\* pieces.  The one template with a range has the pieces before the range,
\* the pieces printed for each element (after a comma when the index is not
\* zero), and the pieces after it.
Lit(str) == [k |-> "lit", v |-> str]
Field(name) == [k |-> "field", v |-> name]

Plain(pieces) == [pre |-> pieces, ranged |-> FALSE, item |-> <<>>, post |-> <<>>]

\* The empty text: NewHTTPRequest skips it.
EmptyTemplate == Plain(<<>>)

instanceRequestURLTemplate ==
    Plain(<<Lit("https://www.googleapis.com/sql/v1beta4"), Lit("/projects/"),
            Field("ProjectID"), Lit("/instances/"), Field("InstanceName")>>)

sslRequestURLTemplate == instanceRequestURLTemplate

pwRequestURLTemplate ==
    Plain(<<Lit("https://www.googleapis.com/sql/v1beta4"), Lit("/projects/"),
            Field("ProjectID"), Lit("/instances/"), Field("InstanceName"),
            Lit("/users?name="), Field("User")>>)

tokenRequestURLTemplate ==
    Plain(<<Lit("https://www.googleapis.com/oauth2/v1/tokeninfo?access_token="),
            Field("AccessToken")>>)

pwRequestBodyTemplate ==
    Plain(<<Lit("{\"name\": \""), Field("User"), Lit("\", \"password\": \""),
            Field("Password"), Lit("\"}")>>)

sslRequestBodyTemplate ==
    Plain(<<Lit("{\"settings\":{\"ipConfiguration\":{\"requireSsl\":\""), Field("Value"),
            Lit("\"}}}")>>)

instanceRequestBodyTemplate ==
    [pre |-> <<Lit("{\"settings\": {\"ipConfiguration\": {\"authorizedNetworks\": [")>>,
     ranged |-> TRUE,
     item |-> <<Lit("{ \"value\": \""), Field("Value"), Lit("\", \"name\": \""),
                Field("Name"), Lit("\" }")>>,
     post |-> <<Lit("]}}}")>>]

Comma == ","
NoValue == "<no value>"

\* The data a template is executed on: a struct with its fields, a slice of
\* structs, or nil.
Struct(fields) == [kind |-> "struct", fields |-> fields, items |-> <<>>]
Slice(items) == [kind |-> "slice", fields |-> <<>>, items |-> items]
NilData == [kind |-> "nil", fields |-> <<>>, items |-> <<>>]

\* text/template on a sequence of pieces with dot: the pieces printed, or the
\* error.  A field of a struct that has no such field is an error, as is a
\* field of a slice; a field of nil data prints "<no value>".
RECURSIVE ExecPieces(_, _)
ExecPieces(pieces, dot) ==
    IF pieces = <<>> THEN [out |-> <<>>, err |-> "nil"]
    ELSE LET h == Head(pieces)
             rest == ExecPieces(Tail(pieces), dot)
             printed ==
                 IF h.k = "lit" THEN [out |-> <<h.v>>, err |-> "nil"]
                 ELSE IF dot.kind = "nil" THEN [out |-> <<NoValue>>, err |-> "nil"]
                 ELSE IF dot.kind = "struct" /\ h.v \in DOMAIN dot.fields
                      THEN [out |-> <<dot.fields[h.v]>>, err |-> "nil"]
                 ELSE [out |-> <<>>, err |-> "TemplateRenderError"]
         IN  IF printed.err # "nil" THEN printed
             ELSE IF rest.err # "nil" THEN rest
             ELSE [out |-> printed.out \o rest.out, err |-> "nil"]

\* A range that prints the comma after each element.
RECURSIVE ExecRangeTrailingComma(_, _, _)
ExecRangeTrailingComma(pieces, items, index) ==
    IF items = <<>> THEN [out |-> <<>>, err |-> "nil"]
    ELSE LET one == ExecPieces(pieces, Struct(Head(items)))
             rest == ExecRangeTrailingComma(pieces, Tail(items), index + 1)
         IN  IF one.err # "nil" THEN one
             ELSE IF rest.err # "nil" THEN rest
             ELSE [out |-> one.out \o <<Comma>> \o rest.out, err |-> "nil"]

\* {{range $index, $element := .}}{{if $index}},{{end}} ... {{end}}
RECURSIVE ExecRange(_, _, _)
ExecRange(pieces, items, index) ==
    IF items = <<>> THEN [out |-> <<>>, err |-> "nil"]
    ELSE LET one == ExecPieces(pieces, Struct(Head(items)))
             rest == ExecRange(pieces, Tail(items), index + 1)
             sep == IF index # 0 THEN <<Comma>> ELSE <<>>
         IN  IF one.err # "nil" THEN one
             ELSE IF rest.err # "nil" THEN rest
             ELSE [out |-> sep \o one.out \o rest.out, err |-> "nil"]

\* tmpl.Execute(writer, data)
Execute(tmpl, data) ==
    LET pre == ExecPieces(tmpl.pre, data)
        mid == IF ~tmpl.ranged \/ data.kind = "nil" THEN [out |-> <<>>, err |-> "nil"]
               ELSE IF data.kind = "slice" THEN ExecRange(tmpl.item, data.items, 0)
               ELSE [out |-> <<>>, err |-> "TemplateRenderError"]
        post == ExecPieces(tmpl.post, data)
    IN  IF pre.err # "nil" THEN pre
        ELSE IF mid.err # "nil" THEN mid
        ELSE IF post.err # "nil" THEN post
        ELSE [out |-> pre.out \o mid.out \o post.out, err |-> "nil"]

\* Values http.NewRequest rejects in a URL (an invalid percent-escape).
BadURLValues == {"i%zz"}

\* http.NewRequest(method, url, body): the URL has to parse.
URLParses(url) == \A i \in 1..Len(url) : url[i] \notin BadURLValues

\* The nil *http.Request
NoBuilt == [m |-> "nil", url |-> <<>>, body |-> <<>>, headers |-> ""]

\* A builder that prints what it can and leaves out what is missing.
ExecuteLenient(tmpl, data) ==
    LET r == Execute(tmpl, data)
    IN  IF r.err = "nil" THEN r ELSE [out |-> ExecPieces(tmpl.pre, NilData).out, err |-> "nil"]

NewHTTPRequestLenient(method, request) ==
    LET u == ExecuteLenient(request.urlText, request.urlData)
        b == ExecuteLenient(request.bodyText, request.bodyData)
    IN  IF ~URLParses(u.out) THEN [req |-> NoBuilt, err |-> "RequestError"]
        ELSE [req |-> [m |-> method, url |-> u.out, body |-> b.out,
                       headers |-> request.headers],
              err |-> "nil"]

\* NewHTTPRequest: the URL template, then the body template, then
\* http.NewRequest and the headers.
NewHTTPRequest(method, request) ==
    LET u == IF request.urlText = EmptyTemplate THEN [out |-> <<>>, err |-> "nil"]
             ELSE Execute(request.urlText, request.urlData)
        b == IF request.bodyText = EmptyTemplate THEN [out |-> <<>>, err |-> "nil"]
             ELSE Execute(request.bodyText, request.bodyData)
    IN  IF u.err # "nil" THEN [req |-> NoBuilt, err |-> u.err]
        ELSE IF b.err # "nil" THEN [req |-> NoBuilt, err |-> b.err]
        ELSE IF ~URLParses(u.out) THEN [req |-> NoBuilt, err |-> "RequestError"]
        ELSE [req |-> [m |-> method, url |-> u.out, body |-> b.out,
                       headers |-> request.headers],
              err |-> "nil"]

\* NewHTTPRequest has not been called.
NoRender == [called |-> FALSE]

\* The record r without the fields outside D.
Restrict(r, D) == [f \in D \cap DOMAIN r |-> r[f]]

InstanceNames == {"i1", "i%zz"}
Methods == {"GET", "PATCH", "PUT"}
Headers == "Authorization: Bearer ya29"

\* The URL data of the callers, whole.
URLFields(name) ==
    [ProjectID |-> "p1", InstanceName |-> name, User |-> "user", AccessToken |-> "ya29"]

\* The body data of the callers that is a struct, whole.
BodyFields(value) == [User |-> "user", Password |-> "secret", Value |-> value]

\* NewHTTPRequest is applied to these requests: the templates of the package
\* and a poll link, on structs with and without the fields they name, on
\* slices of entries with and without a name, and on nil.
URLTexts ==
    {instanceRequestURLTemplate, pwRequestURLTemplate, tokenRequestURLTemplate,
     Plain(<<Lit(Link(1))>>), EmptyTemplate}

URLDatas ==
    {Struct(Restrict(URLFields(n), D)) :
        n \in InstanceNames,
        D \in {{"ProjectID", "InstanceName"}, {"ProjectID", "InstanceName", "User"},
               {"ProjectID"}, {"ProjectID", "User"}, {"AccessToken"}, {}}}
    \cup {NilData}

BodyTexts ==
    {EmptyTemplate, pwRequestBodyTemplate, sslRequestBodyTemplate, instanceRequestBodyTemplate}

Entries ==
    [Value : NetValues, Name : NetNames] \cup [Value : NetValues]

BodyDatas ==
    {Struct(Restrict(BodyFields(v), D)) :
        v \in {"true", "false"}, D \in {{"User", "Password"}, {"User"}, {"Value"}, {}}}
    \cup {Slice(l) : l \in SeqsUpTo(Entries, MaxNets)}
    \cup {NilData}

Requests ==
    [urlText : URLTexts, urlData : URLDatas, bodyText : BodyTexts, bodyData : BodyDatas,
     headers : {Headers}]

\* The TemplatedHTTPRequest an operation builds, on an instance of the given
\* name and authorized networks.
OperationRequest(c, name, current) ==
    CASE c.op \in {"EnableSSL", "DisableSSL"} ->
            [urlText |-> sslRequestURLTemplate,
             urlData |-> Struct(Restrict(URLFields(name), {"ProjectID", "InstanceName"})),
             bodyText |-> sslRequestBodyTemplate,
             bodyData |-> Struct([Value |-> IF c.op = "EnableSSL" THEN "true" ELSE "false"]),
             headers |-> Headers]
      [] c.op = "WhitelistIP" ->
            [urlText |-> instanceRequestURLTemplate,
             urlData |-> Struct(Restrict(URLFields(name), {"ProjectID", "InstanceName"})),
             bodyText |-> instanceRequestBodyTemplate,
             bodyData |-> Slice(WhitelistNetworks(current, c.name, c.value)),
             headers |-> Headers]
      [] c.op = "BlacklistIP" ->
            [urlText |-> instanceRequestURLTemplate,
             urlData |-> Struct(Restrict(URLFields(name), {"ProjectID", "InstanceName"})),
             bodyText |-> instanceRequestBodyTemplate,
             bodyData |-> Slice(BlacklistNetworks(current, c.value)),
             headers |-> Headers]
      [] c.op = "SetUserPassword" ->
            [urlText |-> pwRequestURLTemplate,
             urlData |-> Struct([ProjectID |-> "p1", InstanceName |-> name, User |-> c.name]),
             bodyText |-> pwRequestBodyTemplate,
             bodyData |-> Struct([User |-> c.name, Password |-> c.value]),
             headers |-> Headers]

\* The same request on data that lacks fields: the URL data without its
\* instance name, the body data without its fields.
WithoutURLField(request) ==
    [request EXCEPT !.urlData = Struct(Restrict(@.fields, DOMAIN @.fields \ {"InstanceName"}))]

WithoutBodyFields(request) ==
    [request EXCEPT !.bodyData =
        IF @.kind = "slice" THEN Slice([i \in 1..Len(@.items) |-> Restrict(@.items[i], {"Value"})])
        ELSE Struct(Restrict(@.fields, {}))]

\* The requests a call is rendered with.
CallRequests(c, current) ==
    LET asBuilt == {OperationRequest(c, n, current) : n \in InstanceNames}
    IN  asBuilt \cup {WithoutURLField(r) : r \in asBuilt}
                \cup {WithoutBodyFields(r) : r \in asBuilt}

(***************************************************************************)
(* SQLInstance.GetPublicIP                                                 *)
(***************************************************************************)
AddrTypes == {"PRIMARY", "OUTGOING", "PRIVATE"}
AddrIPs == {"9.9.9.9", "10.0.0.1"}

\* An entry of SQLInstance.IPAddresses
IPAddress == [Type : AddrTypes, IPAddress : AddrIPs]

\* A search that keeps the last entry of type "PRIMARY".
RECURSIVE GetLastPublicIP(_)
GetLastPublicIP(addrs) ==
    IF addrs = <<>> THEN [ip |-> "", err |-> "ErrNoPublicIP"]
    ELSE IF addrs[Len(addrs)].Type = "PRIMARY"
         THEN [ip |-> addrs[Len(addrs)].IPAddress, err |-> "nil"]
    ELSE GetLastPublicIP(SubSeq(addrs, 1, Len(addrs) - 1))

\* for _, addr := range s.IPAddresses: the first entry of type "PRIMARY".
RECURSIVE GetPublicIP(_)
GetPublicIP(addrs) ==
    IF addrs = <<>> THEN [ip |-> "", err |-> "ErrNoPublicIP"]
    ELSE IF Head(addrs).Type = "PRIMARY" THEN [ip |-> Head(addrs).IPAddress, err |-> "nil"]
    ELSE GetPublicIP(Tail(addrs))

\* GetPublicIP has not been called.
NoLookup == [addrs |-> <<>>, ip |-> "", err |-> "none"]

(***************************************************************************)
(* Connection construction: NewConnection                                  *)
(***************************************************************************)
\* What `gcloud auth application-default print-access-token` can do.
GcloudOutcomes == {"ok", "fail"}

\* The tokeninfo document, and a JSON error document.
TokenInfoDoc == [expires_in |-> 3600]
ErrorDoc == [error |-> "invalid"]

TokenReplies ==
    {[net |-> "fail", code |-> 0, body |-> NoDoc]}
    \cup [net : {"ok"}, code : HTTPCodes, body : {NoDoc, TokenInfoDoc, ErrorDoc}]

\* The value GenerateAccessToken returns: the AccessToken and the error.  The
\* token string is set before the tokeninfo call (built is whether
\* NewHTTPRequest gave a request for it); a tokeninfo reply that parses
\* without the fields of AccessToken leaves them zero.
GenerateAccessTokenResult(variant, built, reply, t) ==
    LET e == ParseErr(variant, reply)
    IN  IF ~built THEN [at |-> NoToken, err |-> "TemplateRenderError"]
        ELSE IF e # "nil" THEN [at |-> NoToken, err |-> e]
        ELSE IF reply.body = TokenInfoDoc
             THEN [at |-> NewAccessToken(TokenInfoDoc.expires_in, t), err |-> "nil"]
             ELSE [at |-> NewAccessToken(0, t), err |-> "nil"]

\* The instance document, and the replies to the instance fetch.
InstanceDoc == [kind |-> "sql#instance"]

InstanceReplies ==
    {[net |-> "fail", code |-> 0, body |-> NoDoc]}
    \cup [net : {"ok"}, code : HTTPCodes, body : {NoDoc, InstanceDoc, ErrorDoc}]

\* NewConnection has not been called.
NotConstructed ==
    [pc |-> "start", tokenErr |-> "none", err |-> "none", fetches |-> 0, bearer |-> ""]

\* NewConnection has returned a Connection and a nil error.
Constructed ==
    [pc |-> "returned", tokenErr |-> "nil", err |-> "nil", fetches |-> 1, bearer |-> "ya29"]

\* The caller of NewConnection was handed a Connection with a nil error.
Usable == ctor.pc = "returned" /\ ctor.err = "nil"

(***************************************************************************)
(* Initial state: a Connection right after a successful NewConnection      *)
(***************************************************************************)
\* The instance as fetched has some authorized-network list.
InitConn(lists) ==
    /\ pc = [p \in Callers |-> "idle"]
    /\ call = [p \in Callers |-> NoCall]
    /\ err = [p \in Callers |-> "none"]
    /\ lock = 0
    /\ response = EmptyResponse
    /\ httpRequest = NoRequest
    /\ pollURL = [p \in Callers |-> NoLink]
    /\ networks \in lists
    /\ trace = [p \in Callers |-> <<>>]
    /\ pollLog = [p \in Callers |-> <<>>]
    /\ subReply = [p \in Callers |-> NoReply]
    /\ nCalls = 0
    /\ prev = NoPrev
    /\ parseVariant \in {"logging", "returning"}
    /\ ctor = Constructed

InitToken ==
    /\ now = 1
    /\ token = NewAccessToken(3600, 1)
    /\ ticks = 0

\* Connection{}: the zero value, its lock a nil pointer.
NoConnection == [made |-> FALSE, lock |-> 0, response |-> EmptyResponse, Instance |-> <<>>]

\* A caller that has made no call.
NoCaller == [pc |-> "idle", err |-> "none", pollURL |-> NoLink, polls |-> 0, calls |-> 0]

\* The two Connections a program may obtain from NewConnection.
Conns == {1, 2}

\* No mutex allocated, no Connection constructed.
NoConns == [heap |-> <<>>, ops |-> 0, c |-> [i \in Conns |-> NoConnection],
            by |-> [i \in Conns |-> NoCaller]]

\* Neither NewHTTPRequest nor GetPublicIP has been applied, and no second
\* Connection has been constructed.
InitPure ==
    /\ render = NoRender
    /\ ip = NoLookup
    /\ conns = NoConns

\* Before NewConnection is called.
InitNew ==
    /\ pc = [p \in Callers |-> "idle"]
    /\ call = [p \in Callers |-> NoCall]
    /\ err = [p \in Callers |-> "none"]
    /\ lock = 0
    /\ response = EmptyResponse
    /\ httpRequest = NoRequest
    /\ pollURL = [p \in Callers |-> NoLink]
    /\ networks = <<>>
    /\ trace = [p \in Callers |-> <<>>]
    /\ pollLog = [p \in Callers |-> <<>>]
    /\ subReply = [p \in Callers |-> NoReply]
    /\ nCalls = 0
    /\ prev = NoPrev
    /\ parseVariant \in {"logging", "returning"}
    /\ ctor = NotConstructed
    /\ now = 1
    /\ token = NoToken
    /\ ticks = 0
    /\ InitPure

OneList ==
    {<<[Value |-> "5.6.7.8/32", Name |-> "home", Kind |-> AclKind],
       [Value |-> "1.2.3.4/32", Name |-> "home", Kind |-> AclKind]>>}

Init == InitConn(OneList) /\ InitToken /\ InitPure

AclInit == InitConn(SeqsUpTo(AuthorizedNetwork, MaxNets)) /\ InitToken /\ InitPure

\* Before any token is generated.
TokenInit ==
    /\ InitConn(OneList)
    /\ now = 1
    /\ token = NoToken
    /\ ticks = 0
    /\ InitPure

\* An instance with some address list, GetPublicIP not called yet.
IPInit ==
    /\ InitConn(OneList)
    /\ InitToken
    /\ render = NoRender
    /\ ip \in {[addrs |-> a, ip |-> "", err |-> "none"] : a \in SeqsUpTo(IPAddress, MaxAddrs)}
    /\ conns = NoConns

(***************************************************************************)
(* Operation Coordinator: one caller's walk through a mutating call        *)
(***************************************************************************)
Sleeps(p) == Len(SelectSeq(trace[p], LAMBDA e : e.m = "sleep"))
Gets(p) == Len(SelectSeq(trace[p], LAMBDA e : e.m = "GET"))
Mutations(p) == Len(SelectSeq(trace[p], LAMBDA e : e.m \in {"PATCH", "PUT"}))

\* A caller enters one of the five public operations.  The four of lines
\* 189-234 go for c.lock first; SetUserPassword (lines 303-340) does not.
Begin(p, c) ==
    /\ pc[p] = "idle"
    /\ nCalls' = nCalls + 1
    /\ call' = [call EXCEPT ![p] = [op |-> c.op, name |-> c.name, value |-> c.value,
                                    id |-> nCalls + 1]]
    /\ pc' = [pc EXCEPT ![p] = IF c.op \in LockedOps THEN "acquire" ELSE "render"]
    /\ UNCHANGED <<err, lock, response, httpRequest, pollURL, networks, trace, pollLog,
                   subReply, prev, parseVariant>>

\* A Lock() that does not wait for the holder.
AcquireNoWait(p) ==
    /\ pc[p] = "acquire"
    /\ lock' = p
    /\ pc' = [pc EXCEPT ![p] = "render"]
    /\ UNCHANGED <<call, err, response, httpRequest, pollURL, networks, trace, pollLog,
                   subReply, nCalls, prev, parseVariant>>

\* c.lock.Lock()
Acquire(p) ==
    /\ pc[p] = "acquire"
    /\ lock = 0
    /\ lock' = p
    /\ pc' = [pc EXCEPT ![p] = "render"]
    /\ UNCHANGED <<call, err, response, httpRequest, pollURL, networks, trace, pollLog,
                   subReply, nCalls, prev, parseVariant>>

\* c.httpRequest, err = NewHTTPRequest("PATCH" | "PUT", request)
Render(p, ok) ==
    /\ pc[p] = "render"
    /\ pc' = [pc EXCEPT ![p] = IF ok THEN "submit" ELSE "ret"]
    /\ err' = [err EXCEPT ![p] = IF ok THEN "none" ELSE "TemplateRenderError"]
    /\ httpRequest' = IF ok THEN MutatingRequest(call[p], networks) ELSE NoRequest
    /\ UNCHANGED <<call, lock, response, pollURL, networks, trace, pollLog,
                   subReply, nCalls, prev, parseVariant>>

\* err = ParseHTTPRequest(c.httpRequest, &c.response)
Submit(p, reply) ==
    /\ pc[p] = "submit"
    /\ LET e == ParseErr(parseVariant, reply)
           r == ParseInto(parseVariant, reply, response)
       IN  /\ response' = r
           /\ trace' = [trace EXCEPT ![p] = Append(@, httpRequest)]
           /\ pc' = [pc EXCEPT ![p] = IF e = "nil" THEN "wait" ELSE "ret"]
           /\ err' = [err EXCEPT ![p] = IF e = "nil" THEN "none" ELSE e]
    /\ UNCHANGED <<call, lock, httpRequest, pollURL, networks, nCalls, prev, parseVariant>>

\* A waitUntilDone that goes to its loop without the empty check.
WaitEntryUnchecked(p) ==
    /\ pc[p] = "wait"
    /\ pollURL' = [pollURL EXCEPT ![p] = response.SelfLink]
    /\ pc' = [pc EXCEPT ![p] = "loop"]
    /\ UNCHANGED <<call, err, lock, response, httpRequest, networks, trace, pollLog,
                   subReply, nCalls, prev, parseVariant>>

\* waitUntilDone, lines 343-353: the empty check and the poll request template
WaitEntry(p) ==
    /\ pc[p] = "wait"
    /\ IF response = EmptyResponse
       THEN /\ err' = [err EXCEPT ![p] = "EmptyOperationError"]
            /\ pc' = [pc EXCEPT ![p] = "ret"]
            /\ UNCHANGED pollURL
       ELSE /\ pollURL' = [pollURL EXCEPT ![p] = response.SelfLink]
            /\ pc' = [pc EXCEPT ![p] = "loop"]
            /\ UNCHANGED err
    /\ UNCHANGED <<call, lock, response, httpRequest, networks, trace, pollLog,
                   subReply, nCalls, prev, parseVariant>>

\* A loop that goes on only while the status is "PENDING".
LoopWhilePending(p) ==
    /\ pc[p] = "loop"
    /\ IF response.Status = "PENDING"
       THEN /\ pc' = [pc EXCEPT ![p] = "sleep"]
            /\ UNCHANGED err
       ELSE /\ pc' = [pc EXCEPT ![p] = "ret"]
            /\ err' = [err EXCEPT ![p] = "nil"]
    /\ UNCHANGED <<call, lock, response, httpRequest, pollURL, networks, trace, pollLog,
                   subReply, nCalls, prev, parseVariant>>

\* for c.response.Status != "DONE" { ... }; return nil
LoopCheck(p) ==
    /\ pc[p] = "loop"
    /\ IF response.Status # "DONE"
       THEN /\ pc' = [pc EXCEPT ![p] = "sleep"]
            /\ UNCHANGED err
       ELSE /\ pc' = [pc EXCEPT ![p] = "ret"]
            /\ err' = [err EXCEPT ![p] = "nil"]
    /\ UNCHANGED <<call, lock, response, httpRequest, pollURL, networks, trace, pollLog,
                   subReply, nCalls, prev, parseVariant>>

\* A loop body that builds the GET without sleeping first.
SleepSkipped(p, ok) ==
    /\ pc[p] = "sleep"
    /\ pc' = [pc EXCEPT ![p] = IF ok THEN "get" ELSE "ret"]
    /\ err' = [err EXCEPT ![p] = IF ok THEN "none" ELSE "TemplateRenderError"]
    /\ UNCHANGED <<call, lock, response, httpRequest, pollURL, networks, trace, pollLog,
                   subReply, nCalls, prev, parseVariant>>

\* time.Sleep(1 * time.Second); httpRequest, err := NewHTTPRequest("GET", request)
Sleep(p, ok) ==
    /\ pc[p] = "sleep"
    /\ trace' = [trace EXCEPT ![p] = Append(@, SleepEvent)]
    /\ pc' = [pc EXCEPT ![p] = IF ok THEN "get" ELSE "ret"]
    /\ err' = [err EXCEPT ![p] = IF ok THEN "none" ELSE "TemplateRenderError"]
    /\ UNCHANGED <<call, lock, response, httpRequest, pollURL, networks, pollLog,
                   subReply, nCalls, prev, parseVariant>>

\* What a GET on the captured link can come back with: a request with an
\* empty URL never leaves the client.
PollReplies(link) ==
    IF link = NoLink THEN {r \in Replies(link) : r.net = "fail"} ELSE Replies(link)

\* A poll that sends c.httpRequest, the mutating request, once more.
GetResending(p, reply) ==
    /\ pc[p] = "get"
    /\ LET e == ParseErr(parseVariant, reply)
       IN  /\ response' = ParseInto(parseVariant, reply, response)
           /\ trace' = [trace EXCEPT ![p] = Append(@, httpRequest)]
           /\ pc' = [pc EXCEPT ![p] = IF e = "nil" THEN "loop" ELSE "ret"]
           /\ err' = [err EXCEPT ![p] = IF e = "nil" THEN "none" ELSE e]
    /\ UNCHANGED <<call, lock, httpRequest, pollURL, networks, nCalls, prev, parseVariant>>

\* A poll that goes on to the next sleep without looking at the status.
GetWithoutRecheck(p, reply) ==
    /\ pc[p] = "get"
    /\ LET e == ParseErr(parseVariant, reply)
       IN  /\ response' = ParseInto(parseVariant, reply, response)
           /\ trace' = [trace EXCEPT ![p] = Append(@, GetRequest(pollURL[p]))]
           /\ pc' = [pc EXCEPT ![p] = IF e = "nil" THEN "sleep" ELSE "ret"]
           /\ err' = [err EXCEPT ![p] = IF e = "nil" THEN "none" ELSE e]
    /\ UNCHANGED <<call, lock, httpRequest, pollURL, networks, nCalls, prev, parseVariant>>

\* A poll that goes back to the loop whatever ParseHTTPRequest returned.
GetIgnoringError(p, reply) ==
    /\ pc[p] = "get"
    /\ LET e == ParseErr(parseVariant, reply)
       IN  /\ response' = ParseInto(parseVariant, reply, response)
           /\ trace' = [trace EXCEPT ![p] = Append(@, GetRequest(pollURL[p]))]
           /\ pc' = [pc EXCEPT ![p] = "loop"]
           /\ err' = [err EXCEPT ![p] = IF e = "nil" THEN "none" ELSE e]
    /\ UNCHANGED <<call, lock, httpRequest, pollURL, networks, nCalls, prev, parseVariant>>

\* A poll that parses into a copy and leaves c.response as it was.
GetIntoCopy(p, reply) ==
    /\ pc[p] = "get"
    /\ LET e == ParseErr(parseVariant, reply)
       IN  /\ trace' = [trace EXCEPT ![p] = Append(@, GetRequest(pollURL[p]))]
           /\ pc' = [pc EXCEPT ![p] = IF e = "nil" THEN "loop" ELSE "ret"]
           /\ err' = [err EXCEPT ![p] = IF e = "nil" THEN "none" ELSE e]
    /\ UNCHANGED <<call, lock, response, httpRequest, pollURL, networks, nCalls, prev,
                   parseVariant>>

\* err = ParseHTTPRequest(httpRequest, &c.response)
Get(p, reply) ==
    /\ pc[p] = "get"
    /\ LET e == ParseErr(parseVariant, reply)
       IN  /\ response' = ParseInto(parseVariant, reply, response)
           /\ trace' = [trace EXCEPT ![p] = Append(@, GetRequest(pollURL[p]))]
           /\ pc' = [pc EXCEPT ![p] = IF e = "nil" THEN "loop" ELSE "ret"]
           /\ err' = [err EXCEPT ![p] = IF e = "nil" THEN "none" ELSE e]
    /\ UNCHANGED <<call, lock, httpRequest, pollURL, networks, nCalls, prev, parseVariant>>

\* A return that unlocks on the success path only.
ReturnUnlockOnSuccess(p) ==
    /\ pc[p] = "ret"
    /\ lock' = IF call[p].op \in LockedOps /\ err[p] = "nil" THEN 0 ELSE lock
    /\ pc' = [pc EXCEPT ![p] = "idle"]
    /\ prev' = [op |-> call[p].op, value |-> call[p].value, err |-> err[p]]
    /\ call' = [call EXCEPT ![p] = NoCall]
    /\ err' = [err EXCEPT ![p] = "none"]
    /\ trace' = [trace EXCEPT ![p] = <<>>]
    /\ pollLog' = [pollLog EXCEPT ![p] = <<>>]
    /\ subReply' = [subReply EXCEPT ![p] = NoReply]
    /\ pollURL' = [pollURL EXCEPT ![p] = NoLink]
    /\ UNCHANGED <<response, httpRequest, networks, nCalls, parseVariant>>

\* The return of the public operation: the deferred c.lock.Unlock() of the
\* four locked operations runs and the error value goes to the caller.  The
\* caller's view of the finished call is kept in prev.
Return(p) ==
    /\ pc[p] = "ret"
    /\ lock' = IF call[p].op \in LockedOps THEN 0 ELSE lock
    /\ pc' = [pc EXCEPT ![p] = "idle"]
    /\ prev' = [op |-> call[p].op, value |-> call[p].value, err |-> err[p]]
    /\ call' = [call EXCEPT ![p] = NoCall]
    /\ err' = [err EXCEPT ![p] = "none"]
    /\ trace' = [trace EXCEPT ![p] = <<>>]
    /\ pollLog' = [pollLog EXCEPT ![p] = <<>>]
    /\ subReply' = [subReply EXCEPT ![p] = NoReply]
    /\ pollURL' = [pollURL EXCEPT ![p] = NoLink]
    /\ UNCHANGED <<response, httpRequest, networks, nCalls, parseVariant>>

(***************************************************************************)
(* Two Connections: each NewConnection allocates the mutex its Connection  *)
(* points to; caller i makes the locked calls on Connection i              *)
(***************************************************************************)
\* A NewConnection whose Connections all point to one mutex.
NewConnectionSharedMutex(i) ==
    /\ ~conns.c[i].made
    /\ conns' = [conns EXCEPT
                    !.heap = IF @ = <<>> THEN <<0>> ELSE @,
                    !.c[i] = [made |-> TRUE, lock |-> 1, response |-> EmptyResponse,
                              Instance |-> CHOOSE l \in OneList : TRUE]]

\* NewConnection returning a nil error: c.Instance = sqlInstance;
\* c.lock = new(sync.Mutex); c.response is the zero Response.
NewConnectionOf(i) ==
    /\ ~conns.c[i].made
    /\ conns' = [conns EXCEPT
                    !.heap = Append(@, 0),
                    !.c[i] = [made |-> TRUE, lock |-> Len(conns.heap) + 1,
                              response |-> EmptyResponse,
                              Instance |-> CHOOSE l \in OneList : TRUE]]

\* Entry of EnableSSL / DisableSSL / WhitelistIP / BlacklistIP on Connection i.
BeginOn(i) ==
    /\ conns.c[i].made
    /\ conns.by[i].pc = "idle"
    /\ conns.by[i].calls < MaxNewCalls
    /\ conns' = [conns EXCEPT !.ops = @ + 1,
                              !.by[i] = [pc |-> "acquire", err |-> "none", pollURL |-> NoLink,
                                         polls |-> 0, calls |-> @.calls + 1]]

\* c.lock.Lock() on the mutex Connection i points to.
LockOn(i) ==
    /\ conns.by[i].pc = "acquire"
    /\ conns.heap[conns.c[i].lock] = 0
    /\ conns' = [conns EXCEPT !.heap[conns.c[i].lock] = i, !.by[i].pc = "submit"]

\* NewHTTPRequest and ParseHTTPRequest(c.httpRequest, &c.response) of the
\* mutating request, then waitUntilDone's test of an empty response.
SubmitOn(i, ok, reply) ==
    /\ conns.by[i].pc = "submit"
    /\ LET e == IF ok THEN ParseErr(parseVariant, reply) ELSE "TemplateRenderError"
           r == IF ok THEN ParseInto(parseVariant, reply, conns.c[i].response)
                ELSE conns.c[i].response
       IN  conns' = [conns EXCEPT
                       !.c[i].response = r,
                       !.by[i].pc = IF e = "nil" /\ r # EmptyResponse THEN "loop" ELSE "ret",
                       !.by[i].err = IF e # "nil" THEN e
                                     ELSE IF r = EmptyResponse THEN "EmptyOperationError"
                                     ELSE "none",
                       !.by[i].pollURL = IF e = "nil" /\ r # EmptyResponse THEN r.SelfLink
                                         ELSE NoLink]

\* One round of waitUntilDone's loop: the test of c.response.Status, the
\* sleep, the GET and ParseHTTPRequest(httpRequest, &c.response).
PollOn(i, reply) ==
    /\ conns.by[i].pc = "loop"
    /\ IF conns.c[i].response.Status = "DONE"
       THEN conns' = [conns EXCEPT !.by[i].pc = "ret", !.by[i].err = "nil"]
       ELSE /\ conns.by[i].polls < MaxConcPolls
            /\ LET e == ParseErr(parseVariant, reply)
               IN  conns' = [conns EXCEPT
                               !.c[i].response = ParseInto(parseVariant, reply, @),
                               !.by[i].polls = @ + 1,
                               !.by[i].pc = IF e = "nil" THEN "loop" ELSE "ret",
                               !.by[i].err = IF e = "nil" THEN "none" ELSE e]

\* The deferred c.lock.Unlock() and the return.
ReturnOn(i) ==
    /\ conns.by[i].pc = "ret"
    /\ conns' = [conns EXCEPT !.heap[conns.c[i].lock] = 0, !.by[i].pc = "idle"]

(***************************************************************************)
(* The earlier Connection (unnamed/part_001, lines 14-183): the mutex is a *)
(* field of the struct, taken inside modifySSLPolicy and SetUserPassword   *)
(* and taken again inside waitUntilDone                                    *)
(***************************************************************************)
\* EnableSSL, DisableSSL and SetUserPassword: the operations of that variant.
OldCalls == {c \in Calls : c.op \in {"EnableSSL", "DisableSSL", "SetUserPassword"}}

\* Entry of a call: each of the three goes to c.lock.Lock() first.
OldBegin(p, c) ==
    /\ pc[p] = "idle"
    /\ nCalls' = nCalls + 1
    /\ call' = [call EXCEPT ![p] = [op |-> c.op, name |-> c.name, value |-> c.value,
                                    id |-> nCalls + 1]]
    /\ pc' = [pc EXCEPT ![p] = "acquire"]
    /\ UNCHANGED <<err, lock, response, httpRequest, pollURL, networks, trace, pollLog,
                   subReply, prev, parseVariant>>

\* The lock after an error return of the submitting function: SetUserPassword
\* unlocks before it returns the error, modifySSLPolicy returns it at once.
OldLockOnError(p) == IF call[p].op = "SetUserPassword" THEN 0 ELSE lock

\* c.httpRequest, err = NewHTTPRequest("PATCH" | "PUT", request); if err != nil
OldRender(p, ok) ==
    /\ pc[p] = "render"
    /\ pc' = [pc EXCEPT ![p] = IF ok THEN "submit" ELSE "ret_early"]
    /\ err' = [err EXCEPT ![p] = IF ok THEN "none" ELSE "TemplateRenderError"]
    /\ httpRequest' = IF ok THEN MutatingRequest(call[p], networks) ELSE NoRequest
    /\ lock' = IF ok THEN lock ELSE OldLockOnError(p)
    /\ UNCHANGED <<call, response, pollURL, networks, trace, pollLog,
                   subReply, nCalls, prev, parseVariant>>

\* err = ParseHTTPRequest(c.httpRequest, &c.response); if err != nil;
\* c.lock.Unlock(); return c.waitUntilDone()
OldSubmit(p, reply) ==
    /\ pc[p] = "submit"
    /\ LET e == ParseErr(parseVariant, reply)
           r == ParseInto(parseVariant, reply, response)
       IN  /\ response' = r
           /\ trace' = [trace EXCEPT ![p] = Append(@, httpRequest)]
           /\ pc' = [pc EXCEPT ![p] = IF e = "nil" THEN "relock" ELSE "ret_early"]
           /\ err' = [err EXCEPT ![p] = IF e = "nil" THEN "none" ELSE e]
           /\ lock' = IF e = "nil" THEN 0 ELSE OldLockOnError(p)
    /\ UNCHANGED <<call, httpRequest, pollURL, networks, nCalls, prev, parseVariant>>

\* waitUntilDone: c.lock.Lock(); defer c.lock.Unlock()
OldRelock(p) ==
    /\ pc[p] = "relock"
    /\ lock = 0
    /\ lock' = p
    /\ pc' = [pc EXCEPT ![p] = "wait"]
    /\ UNCHANGED <<call, err, response, httpRequest, pollURL, networks, trace, pollLog,
                   subReply, nCalls, prev, parseVariant>>

\* The return of a call: out of waitUntilDone, whose deferred Unlock runs, or
\* out of the submitting function with an error.
OldReturn(p) ==
    /\ pc[p] \in {"ret", "ret_early"}
    /\ lock' = IF pc[p] = "ret" THEN 0 ELSE lock
    /\ pc' = [pc EXCEPT ![p] = "idle"]
    /\ prev' = [op |-> call[p].op, value |-> call[p].value, err |-> err[p]]
    /\ call' = [call EXCEPT ![p] = NoCall]
    /\ err' = [err EXCEPT ![p] = "none"]
    /\ trace' = [trace EXCEPT ![p] = <<>>]
    /\ pollLog' = [pollLog EXCEPT ![p] = <<>>]
    /\ subReply' = [subReply EXCEPT ![p] = NoReply]
    /\ pollURL' = [pollURL EXCEPT ![p] = NoLink]
    /\ UNCHANGED <<response, httpRequest, networks, nCalls, parseVariant>>

(***************************************************************************)
(* The poll loop without an end: the loop has no iteration limit, and the  *)
(* trace of a call records the first MaxConcPolls rounds only              *)
(***************************************************************************)
\* The replies of a remote side on which every request succeeds.
GoodReplies(link) ==
    {r \in Replies(link) : r.net = "ok" /\ r.code = StatusOK /\ r.body.Status \in {"PENDING", "RUNNING", "DONE"}}

\* time.Sleep(1 * time.Second); httpRequest, err := NewHTTPRequest("GET", request)
SleepOn(p) ==
    IF Gets(p) < MaxConcPolls THEN Sleep(p, TRUE)
    ELSE /\ pc[p] = "sleep"
         /\ pc' = [pc EXCEPT ![p] = "get"]
         /\ err' = [err EXCEPT ![p] = "none"]
         /\ UNCHANGED <<call, lock, response, httpRequest, pollURL, networks, trace, pollLog,
                        subReply, nCalls, prev, parseVariant>>

\* err = ParseHTTPRequest(httpRequest, &c.response), the request succeeding
GetOn(p, reply) ==
    IF Sleeps(p) > Gets(p) THEN Get(p, reply)
    ELSE /\ pc[p] = "get"
         /\ LET e == ParseErr(parseVariant, reply)
            IN  /\ response' = ParseInto(parseVariant, reply, response)
                /\ pc' = [pc EXCEPT ![p] = IF e = "nil" THEN "loop" ELSE "ret"]
                /\ err' = [err EXCEPT ![p] = IF e = "nil" THEN "none" ELSE e]
         /\ UNCHANGED <<call, lock, httpRequest, pollURL, networks, trace, nCalls, prev,
                        parseVariant>>

(***************************************************************************)
(* Observations of a call, kept by the specifications that speak of them   *)
(***************************************************************************)
\* The reply to the mutating request.
SeeSubmit(p, reply) ==
    /\ subReply' = [subReply EXCEPT ![p] = reply]
    /\ UNCHANGED pollLog

\* What the GET came back with.
SeeGet(p, reply) ==
    /\ pollLog' = [pollLog EXCEPT ![p] = Append(@, Observed(parseVariant, reply))]
    /\ UNCHANGED subReply

NotSeen == UNCHANGED <<pollLog, subReply>>

\* The answer to the latest poll of a call only, for a loop without an end.
SeeLast(p, reply) ==
    /\ pollLog' = [pollLog EXCEPT ![p] = <<reply>>]
    /\ UNCHANGED subReply

\* GetResponse: the last response held by the connection
GetResponse == response

(***************************************************************************)
(* Credential steps                                                        *)
(***************************************************************************)
GenerateAccessToken(expiresIn) ==
    /\ token' = NewAccessToken(expiresIn, now)
    /\ UNCHANGED <<now, ticks>>

Tick(d) ==
    /\ ticks < MaxTicks
    /\ now' = now + d
    /\ ticks' = ticks + 1
    /\ UNCHANGED token

\* getExpireTime: at.expireTime = time.Now(); the result of the Add that
\* follows is dropped.
GetExpireTime ==
    /\ token' = [token EXCEPT !.expireTime = now]
    /\ UNCHANGED <<now, ticks>>

(***************************************************************************)
(* NewConnection, step by step                                             *)
(***************************************************************************)
\* accessToken, err := GenerateAccessToken().  A failing gcloud command ends
\* the process in log.Fatal; otherwise the token and the error come back and
\* NewConnection goes on without looking at the error.
NewConnectionToken(gcloud, built, reply) ==
    /\ ctor.pc = "start"
    /\ IF gcloud = "fail"
       THEN /\ ctor' = [ctor EXCEPT !.pc = "exited"]
            /\ UNCHANGED token
       ELSE LET r == GenerateAccessTokenResult(parseVariant, built, reply, now)
            IN  /\ token' = r.at
                /\ ctor' = [ctor EXCEPT !.pc = "build", !.tokenErr = r.err, !.err = r.err]
    /\ UNCHANGED <<connVars, now, ticks, pureVars, twoVars>>

\* httpRequest, err := NewHTTPRequest("GET", request): err is assigned anew,
\* the Authorization header carries accessToken.token.
NewConnectionRequest(ok) ==
    /\ ctor.pc = "build"
    /\ ctor' = [ctor EXCEPT !.pc = IF ok THEN "fetch" ELSE "returned",
                            !.err = IF ok THEN "nil" ELSE "TemplateRenderError",
                            !.bearer = token.token]
    /\ UNCHANGED <<connVars, tokenVars, pureVars, twoVars>>

\* A fetch that parses the reply into c.response as well.
NewConnectionFetchIntoResponse(reply) ==
    /\ ctor.pc = "fetch"
    /\ LET e == ParseErr(parseVariant, reply)
       IN  /\ ctor' = [ctor EXCEPT !.pc = "returned", !.err = e, !.fetches = @ + 1]
           /\ networks' = IF e = "nil" /\ reply.body = InstanceDoc
                           THEN CHOOSE l \in OneList : TRUE ELSE <<>>
           /\ response' = IF e = "nil" THEN [EmptyResponse EXCEPT !.Status = "DONE"]
                           ELSE response
    /\ UNCHANGED <<pc, call, err, lock, httpRequest, pollURL, trace, pollLog,
                   subReply, nCalls, prev, parseVariant, tokenVars, pureVars, twoVars>>

\* err = ParseHTTPRequest(httpRequest, &sqlInstance); c.Instance = sqlInstance;
\* c.accessToken = accessToken; c.lock = new(sync.Mutex); return
NewConnectionFetch(reply) ==
    /\ ctor.pc = "fetch"
    /\ LET e == ParseErr(parseVariant, reply)
       IN  /\ ctor' = [ctor EXCEPT !.pc = "returned", !.err = e, !.fetches = @ + 1]
           /\ networks' = IF e = "nil" /\ reply.body = InstanceDoc
                           THEN CHOOSE l \in OneList : TRUE ELSE <<>>
    /\ UNCHANGED <<pc, call, err, lock, response, httpRequest, pollURL, trace, pollLog,
                   subReply, nCalls, prev, parseVariant, tokenVars, pureVars, twoVars>>

(***************************************************************************)
(* NewHTTPRequest, alone and inside a call                                 *)
(***************************************************************************)
\* NewHTTPRequest(method, request)
Build(method, request) ==
    /\ render = NoRender
    /\ nCalls = 0
    /\ render' = [called |-> TRUE, by |-> 0, method |-> method, request |-> request,
                  result |-> NewHTTPRequest(method, request)]
    /\ UNCHANGED <<connVars, tokenVars, ctorVars, ip, twoVars>>

\* c.httpRequest, err = NewHTTPRequest("PATCH" | "PUT", request) in a call
RenderCall(p, request) ==
    /\ pc[p] = "render"
    /\ LET built == NewHTTPRequest(Method(call[p]), request)
       IN  /\ render' = [called |-> TRUE, by |-> call[p].id, method |-> Method(call[p]),
                         request |-> request, result |-> built]
           /\ Render(p, built.err = "nil")
    /\ UNCHANGED <<tokenVars, ctorVars, ip, twoVars>>

(***************************************************************************)
(* GetPublicIP on the instance's address list                              *)
(***************************************************************************)
PublicIPCall ==
    /\ ip.err = "none"
    /\ ip' = [addrs |-> ip.addrs, ip |-> GetPublicIP(ip.addrs).ip,
              err |-> GetPublicIP(ip.addrs).err]
    /\ UNCHANGED <<connVars, tokenVars, ctorVars, render, twoVars>>

(***************************************************************************)
(* Specifications                                                          *)
(***************************************************************************)
\* Callers may be inside their calls at the same time; between them they
\* make as many calls on the shared Connection as there are callers.
ConcCalls == Cardinality(Callers)

Next ==
    \E p \in Callers :
        \/ \E c \in Calls : nCalls < ConcCalls /\ Begin(p, c) /\ UNCHANGED <<tokenVars, ctorVars, pureVars, twoVars>>
        \/ Acquire(p) /\ UNCHANGED <<tokenVars, ctorVars, pureVars, twoVars>>
        \/ \E ok \in BOOLEAN : Render(p, ok) /\ UNCHANGED <<tokenVars, ctorVars, pureVars, twoVars>>
        \/ \E reply \in Replies(Link(call[p].id)) : Submit(p, reply) /\ NotSeen /\ UNCHANGED <<tokenVars, ctorVars, pureVars, twoVars>>
        \/ WaitEntry(p) /\ UNCHANGED <<tokenVars, ctorVars, pureVars, twoVars>>
        \/ LoopCheck(p) /\ UNCHANGED <<tokenVars, ctorVars, pureVars, twoVars>>
        \/ \E ok \in BOOLEAN :
              Gets(p) < MaxConcPolls /\ Sleep(p, ok) /\ UNCHANGED <<tokenVars, ctorVars, pureVars, twoVars>>
        \/ \E reply \in PollReplies(pollURL[p]) : Get(p, reply) /\ NotSeen /\ UNCHANGED <<tokenVars, ctorVars, pureVars, twoVars>>
        \/ Return(p) /\ UNCHANGED <<tokenVars, ctorVars, pureVars, twoVars>>

Spec == Init /\ [][Next]_vars

\* Calls are issued one after another, by one caller.
AllIdle == \A q \in Callers : pc[q] = "idle"

OneCaller == {CHOOSE p \in Callers : TRUE}

SeqNext ==
    \E p \in OneCaller :
        \/ \E c \in Calls :
              AllIdle /\ nCalls < MaxCalls /\ Begin(p, c) /\ UNCHANGED <<tokenVars, ctorVars, pureVars, twoVars>>
        \/ Acquire(p) /\ UNCHANGED <<tokenVars, ctorVars, pureVars, twoVars>>
        \/ \E ok \in BOOLEAN : Render(p, ok) /\ UNCHANGED <<tokenVars, ctorVars, pureVars, twoVars>>
        \/ \E reply \in Replies(Link(call[p].id)) :
              Submit(p, reply) /\ SeeSubmit(p, reply) /\ UNCHANGED <<tokenVars, ctorVars, pureVars, twoVars>>
        \/ WaitEntry(p) /\ UNCHANGED <<tokenVars, ctorVars, pureVars, twoVars>>
        \/ LoopCheck(p) /\ UNCHANGED <<tokenVars, ctorVars, pureVars, twoVars>>
        \/ \E ok \in BOOLEAN : Gets(p) < MaxPolls /\ Sleep(p, ok) /\ UNCHANGED <<tokenVars, ctorVars, pureVars, twoVars>>
        \/ \E reply \in PollReplies(pollURL[p]) :
              Get(p, reply) /\ SeeGet(p, reply) /\ UNCHANGED <<tokenVars, ctorVars, pureVars, twoVars>>
        \/ Return(p) /\ UNCHANGED <<tokenVars, ctorVars, pureVars, twoVars>>

SeqSpec == Init /\ [][SeqNext]_vars

\* The ACL operations, one call after another, on every instance list.
AclCalls ==
    {c \in Calls : c.op \in {"WhitelistIP", "BlacklistIP"}}
    \cup {[op |-> "WhitelistIP", name |-> "vpn", value |-> "5.6.7.8/32"]}

AclNext ==
    \E p \in OneCaller :
        \/ \E c \in AclCalls :
              AllIdle /\ nCalls < MaxCalls /\ Begin(p, c) /\ UNCHANGED <<tokenVars, ctorVars, pureVars, twoVars>>
        \/ Acquire(p) /\ UNCHANGED <<tokenVars, ctorVars, pureVars, twoVars>>
        \/ \E ok \in BOOLEAN : Render(p, ok) /\ UNCHANGED <<tokenVars, ctorVars, pureVars, twoVars>>
        \/ \E reply \in Replies(Link(call[p].id)) :
              Submit(p, reply) /\ SeeSubmit(p, reply) /\ UNCHANGED <<tokenVars, ctorVars, pureVars, twoVars>>
        \/ WaitEntry(p) /\ UNCHANGED <<tokenVars, ctorVars, pureVars, twoVars>>
        \/ LoopCheck(p) /\ UNCHANGED <<tokenVars, ctorVars, pureVars, twoVars>>
        \/ \E ok \in BOOLEAN :
              Gets(p) < MaxConcPolls /\ Sleep(p, ok) /\ UNCHANGED <<tokenVars, ctorVars, pureVars, twoVars>>
        \/ \E reply \in PollReplies(pollURL[p]) :
              Get(p, reply) /\ SeeGet(p, reply) /\ UNCHANGED <<tokenVars, ctorVars, pureVars, twoVars>>
        \/ Return(p) /\ UNCHANGED <<tokenVars, ctorVars, pureVars, twoVars>>

AclSpec == AclInit /\ [][AclNext]_vars

\* The credential alone: tokens are generated and the clock advances.
TokenNext ==
    \/ \E e \in ExpiresInValues : GenerateAccessToken(e) /\ UNCHANGED <<connVars, ctorVars, pureVars, twoVars>>
    \/ \E d \in ClockSteps : Tick(d) /\ UNCHANGED <<connVars, ctorVars, pureVars, twoVars>>

TokenSpec == TokenInit /\ [][TokenNext]_vars

\* A token whose expiry is stored by getExpireTime, read as the clock advances.
ExpiryNext ==
    \/ \E e \in ExpiresInValues : GenerateAccessToken(e) /\ UNCHANGED <<connVars, ctorVars, pureVars, twoVars>>
    \/ GetExpireTime /\ UNCHANGED <<connVars, ctorVars, pureVars, twoVars>>
    \/ \E d \in ClockSteps : Tick(d) /\ UNCHANGED <<connVars, ctorVars, pureVars, twoVars>>

ExpirySpec == TokenInit /\ [][ExpiryNext]_vars

\* NewConnection, and then calls made one after another on the Connection it
\* returned with a nil error.
NewNext ==
    \/ \E g \in GcloudOutcomes, built \in BOOLEAN, reply \in TokenReplies :
          NewConnectionToken(g, built, reply)
    \/ \E ok \in BOOLEAN : NewConnectionRequest(ok)
    \/ \E reply \in InstanceReplies : NewConnectionFetch(reply)
    \/ \E p \in OneCaller :
          \/ \E c \in Calls :
                /\ Usable /\ AllIdle /\ nCalls < MaxNewCalls
                /\ Begin(p, c) /\ UNCHANGED <<tokenVars, ctorVars, pureVars, twoVars>>
          \/ Acquire(p) /\ UNCHANGED <<tokenVars, ctorVars, pureVars, twoVars>>
          \/ \E ok \in BOOLEAN : Render(p, ok) /\ UNCHANGED <<tokenVars, ctorVars, pureVars, twoVars>>
          \/ \E reply \in Replies(Link(call[p].id)) :
                Submit(p, reply) /\ NotSeen /\ UNCHANGED <<tokenVars, ctorVars, pureVars, twoVars>>
          \/ WaitEntry(p) /\ UNCHANGED <<tokenVars, ctorVars, pureVars, twoVars>>
          \/ LoopCheck(p) /\ UNCHANGED <<tokenVars, ctorVars, pureVars, twoVars>>
          \/ \E ok \in BOOLEAN :
                /\ Gets(p) < MaxConcPolls
                /\ Sleep(p, ok) /\ UNCHANGED <<tokenVars, ctorVars, pureVars, twoVars>>
          \/ \E reply \in PollReplies(pollURL[p]) :
                Get(p, reply) /\ NotSeen /\ UNCHANGED <<tokenVars, ctorVars, pureVars, twoVars>>
          \/ Return(p) /\ UNCHANGED <<tokenVars, ctorVars, pureVars, twoVars>>

NewSpec == InitNew /\ [][NewNext]_vars

\* NewHTTPRequest on every request, and the calls of one caller rendered by it.
RenderNext ==
    \/ /\ render = NoRender
       /\ \E m \in Methods, request \in Requests : Build(m, request)
    \/ \E p \in OneCaller :
          \/ \E c \in Calls :
                /\ AllIdle /\ nCalls < MaxNewCalls
                /\ render.called => render.by > 0
                /\ Begin(p, c) /\ UNCHANGED <<tokenVars, ctorVars, pureVars, twoVars>>
          \/ Acquire(p) /\ UNCHANGED <<tokenVars, ctorVars, pureVars, twoVars>>
          \/ /\ pc[p] = "render"
             /\ \E request \in CallRequests(call[p], networks) : RenderCall(p, request)
          \/ \E reply \in Replies(Link(call[p].id)) :
                Submit(p, reply) /\ NotSeen /\ UNCHANGED <<tokenVars, ctorVars, pureVars, twoVars>>
          \/ WaitEntry(p) /\ UNCHANGED <<tokenVars, ctorVars, pureVars, twoVars>>
          \/ LoopCheck(p) /\ UNCHANGED <<tokenVars, ctorVars, pureVars, twoVars>>
          \/ \E ok \in BOOLEAN :
                /\ Gets(p) < MaxConcPolls
                /\ Sleep(p, ok) /\ UNCHANGED <<tokenVars, ctorVars, pureVars, twoVars>>
          \/ \E reply \in PollReplies(pollURL[p]) :
                Get(p, reply) /\ NotSeen /\ UNCHANGED <<tokenVars, ctorVars, pureVars, twoVars>>
          \/ Return(p) /\ UNCHANGED <<tokenVars, ctorVars, pureVars, twoVars>>

RenderSpec == Init /\ [][RenderNext]_vars

\* Concurrent callers on a remote side on which every request succeeds and
\* every poll is answered with some status.
LiveStep(p) ==
    \/ Render(p, TRUE) /\ UNCHANGED <<tokenVars, ctorVars, pureVars, twoVars>>
    \/ \E reply \in GoodReplies(Link(call[p].id)) :
          Submit(p, reply) /\ SeeSubmit(p, reply) /\ UNCHANGED <<tokenVars, ctorVars, pureVars, twoVars>>
    \/ WaitEntry(p) /\ UNCHANGED <<tokenVars, ctorVars, pureVars, twoVars>>
    \/ LoopCheck(p) /\ UNCHANGED <<tokenVars, ctorVars, pureVars, twoVars>>
    \/ SleepOn(p) /\ UNCHANGED <<tokenVars, ctorVars, pureVars, twoVars>>
    \/ Return(p) /\ UNCHANGED <<tokenVars, ctorVars, pureVars, twoVars>>

LiveAcquire(p) == Acquire(p) /\ UNCHANGED <<tokenVars, ctorVars, pureVars, twoVars>>

\* The poll is answered with a status that is not "DONE".
LiveGetOther(p) ==
    /\ pc[p] = "get"
    /\ \E reply \in {r \in GoodReplies(pollURL[p]) : r.body.Status # "DONE"} :
          GetOn(p, reply) /\ SeeLast(p, reply) /\ UNCHANGED <<tokenVars, ctorVars, pureVars, twoVars>>

\* The poll is answered with status "DONE".
LiveGetDone(p) ==
    /\ pc[p] = "get"
    /\ \E reply \in {r \in GoodReplies(pollURL[p]) : r.body.Status = "DONE"} :
          GetOn(p, reply) /\ SeeLast(p, reply) /\ UNCHANGED <<tokenVars, ctorVars, pureVars, twoVars>>

\* The calls of EnableSSL, which takes the lock, and of SetUserPassword.
LiveCalls == {c \in Calls : c.op \in {"EnableSSL", "SetUserPassword"}}

LiveNext ==
    \E p \in Callers :
        \/ \E c \in LiveCalls :
              nCalls < ConcCalls /\ Begin(p, c) /\ UNCHANGED <<tokenVars, ctorVars, pureVars, twoVars>>
        \/ LiveAcquire(p)
        \/ LiveStep(p)
        \/ LiveGetOther(p)
        \/ LiveGetDone(p)

\* Every caller inside a call goes on taking steps; sync.Mutex hands the lock
\* to a goroutine that keeps waiting for it; and the remote side does not
\* answer the polls of a call with a status other than "DONE" for ever.
LiveFairness ==
    \A p \in Callers :
        /\ WF_vars(LiveStep(p))
        /\ WF_vars(LiveGetOther(p) \/ LiveGetDone(p))
        /\ SF_vars(LiveAcquire(p))
        /\ SF_vars(LiveGetDone(p))

LiveSpec == Init /\ [][LiveNext]_vars /\ LiveFairness

\* Concurrent callers on one Connection of the earlier variant.
OldNext ==
    \E p \in Callers :
        \/ \E c \in OldCalls :
              nCalls < ConcCalls /\ OldBegin(p, c) /\ UNCHANGED <<tokenVars, ctorVars, pureVars, twoVars>>
        \/ Acquire(p) /\ UNCHANGED <<tokenVars, ctorVars, pureVars, twoVars>>
        \/ \E ok \in BOOLEAN : OldRender(p, ok) /\ UNCHANGED <<tokenVars, ctorVars, pureVars, twoVars>>
        \/ /\ pc[p] = "submit"
           /\ \E reply \in Replies(Link(call[p].id)) :
                 OldSubmit(p, reply) /\ NotSeen /\ UNCHANGED <<tokenVars, ctorVars, pureVars, twoVars>>
        \/ OldRelock(p) /\ UNCHANGED <<tokenVars, ctorVars, pureVars, twoVars>>
        \/ WaitEntry(p) /\ UNCHANGED <<tokenVars, ctorVars, pureVars, twoVars>>
        \/ LoopCheck(p) /\ UNCHANGED <<tokenVars, ctorVars, pureVars, twoVars>>
        \/ \E ok \in BOOLEAN :
              Gets(p) < MaxConcPolls /\ Sleep(p, ok) /\ UNCHANGED <<tokenVars, ctorVars, pureVars, twoVars>>
        \/ \E reply \in PollReplies(pollURL[p]) :
              Get(p, reply) /\ NotSeen /\ UNCHANGED <<tokenVars, ctorVars, pureVars, twoVars>>
        \/ OldReturn(p) /\ UNCHANGED <<tokenVars, ctorVars, pureVars, twoVars>>

OldSpec == Init /\ [][OldNext]_vars

\* Two NewConnection calls, and a caller on each of the Connections.
TwoNext ==
    \E i \in Conns :
        \/ NewConnectionOf(i) /\ UNCHANGED <<connVars, tokenVars, ctorVars, render, ip>>
        \/ BeginOn(i) /\ UNCHANGED <<connVars, tokenVars, ctorVars, render, ip>>
        \/ LockOn(i) /\ UNCHANGED <<connVars, tokenVars, ctorVars, render, ip>>
        \/ /\ conns.by[i].pc = "submit"
           /\ \E ok \in BOOLEAN, reply \in Replies(Link(conns.ops)) :
                 SubmitOn(i, ok, reply) /\ UNCHANGED <<connVars, tokenVars, ctorVars, render, ip>>
        \/ /\ conns.by[i].pc = "loop"
           /\ \E reply \in PollReplies(conns.by[i].pollURL) :
                 PollOn(i, reply) /\ UNCHANGED <<connVars, tokenVars, ctorVars, render, ip>>
        \/ ReturnOn(i) /\ UNCHANGED <<connVars, tokenVars, ctorVars, render, ip>>

TwoSpec == Init /\ [][TwoNext]_vars

\* GetPublicIP on every address list.
IPNext == PublicIPCall

IPSpec == IPInit /\ [][IPNext]_vars

(***************************************************************************)
(* Properties                                                              *)
(***************************************************************************)
\* Caller p has sent its mutating request and has not returned yet.
InWindow(p) == pc[p] # "idle" /\ Mutations(p) > 0

NonDone == {"PENDING", "RUNNING"}

\* The submission of p's call parsed, and what it returned.
SubmittedOK(p) == subReply[p] # NoReply /\ ParseErr(parseVariant, subReply[p]) = "nil"

\* Number of entries of list equal to e.
CountIn(list, e) == Cardinality({i \in 1..Len(list) : list[i] = e})

\* C1: the submit-to-poll windows of two calls among EnableSSL, DisableSSL,
\* WhitelistIP and BlacklistIP on one Connection never overlap.
C1_LockedWindowsDisjoint ==
    \A p, q \in Callers :
        (p # q /\ call[p].op \in LockedOps /\ call[q].op \in LockedOps)
            => ~(InWindow(p) /\ InWindow(q))

\* A locked call is polling while another locked call waits for the lock.
C1_Witness ==
    \E p, q \in Callers :
        /\ call[p].op \in LockedOps /\ InWindow(p) /\ Gets(p) > 0
        /\ call[q].op \in LockedOps /\ pc[q] = "acquire"

\* C2: a SetUserPassword call is never inside its submit-to-poll window while
\* another mutating call on the same Connection is inside its own.
C2_SetUserPasswordExclusive ==
    \A p, q \in Callers :
        (p # q /\ call[p].op = "SetUserPassword") => ~(InWindow(p) /\ InWindow(q))

\* C3: a call returns nil only when the stored operation has status "DONE",
\* and GetResponse after that return, before any other call, has status "DONE".
C3_SuccessOnlyWhenDone ==
    /\ \A p \in Callers : (pc[p] = "ret" /\ err[p] = "nil") => response.Status = "DONE"
    /\ (AllIdle /\ prev.err = "nil") => GetResponse.Status = "DONE"

\* A call that polled a non-DONE operation is about to return nil.
C3_Witness ==
    \E p \in Callers :
        /\ pc[p] = "ret" /\ err[p] = "nil" /\ Gets(p) > 0
        /\ SubmittedOK(p) /\ subReply[p].body.Status = "RUNNING"

\* C4: after a submission answered with a non-success HTTP status the call
\* has failed: it is on its way out with an error, with no sleep and no GET.
C4_StatusErrorIsTerminal ==
    \A p \in Callers :
        (subReply[p].net = "ok" /\ subReply[p].code # StatusOK)
            => /\ pc[p] = "ret"
               /\ err[p] \notin {"none", "nil"}
               /\ Sleeps(p) = 0 /\ Gets(p) = 0

\* C5: once NewHTTPRequest or ParseHTTPRequest has returned an error to a
\* call, the call does nothing more on the wire and does not sleep; its next
\* step is the return, with that error; and a call never sends a second
\* mutating request.
C5_ErrorAborts ==
    [][\A p \in Callers :
          /\ Mutations(p) <= 1
          /\ err[p] \notin {"none", "nil"}
                => /\ pc[p] = "ret"
                   /\ pc'[p] \in {"ret", "idle"}
                   /\ pc'[p] = "ret" => trace'[p] = trace[p]
                   /\ pc'[p] = "idle" => prev'.err = err[p]]_vars

\* A call whose poll failed after a successful submission.
C5_Witness ==
    \E p \in Callers :
        /\ pc[p] = "ret" /\ err[p] \in {"TransportError", "DecodeError", "HTTPStatusError"}
        /\ Gets(p) > 0

\* C6: the lock is held only by a caller that is inside one of the four
\* locked operations, past its Lock(); when such a call has returned, by
\* success or by error, the lock is free again.
C6_LockFreeAfterReturn ==
    /\ lock # 0 => /\ call[lock].op \in LockedOps
                   /\ pc[lock] \in {"render", "submit", "wait", "loop", "sleep", "get", "ret"}
    /\ AllIdle => lock = 0

\* A locked call has returned an error and the lock is free for the next call.
C6_Witness ==
    /\ AllIdle /\ lock = 0
    /\ prev.op \in LockedOps /\ prev.err \notin {"none", "nil"}
    /\ nCalls < ConcCalls

\* The case of C7: the submission returned a non-DONE operation and the
\* first GET came back with status "DONE".
C7_Case(p) ==
    /\ SubmittedOK(p) /\ subReply[p].body.Status \in NonDone
    /\ Len(pollLog[p]) >= 1 /\ pollLog[p][1] = "DONE"

\* C7: in that case the call does exactly one sleep and one GET, and ends
\* with nil.
C7_OnePoll ==
    \A p \in Callers :
        C7_Case(p) => /\ Sleeps(p) = 1 /\ Gets(p) = 1
                      /\ pc[p] \in {"loop", "ret"}
                      /\ pc[p] = "ret" => err[p] = "nil"
                      /\ pc[p] = "loop" => err[p] = "none"

C7_Witness == \E p \in Callers : C7_Case(p) /\ pc[p] = "ret"

\* The case of C8: the GETs of the call came back with PENDING, PENDING, DONE.
C8_Case(p) == pollLog[p] = <<"PENDING", "PENDING", "DONE">>

\* C8 as claimed: the call completes having done exactly two sleep-then-poll
\* cycles.
C8_TwoCycles ==
    \A p \in Callers :
        (C8_Case(p) /\ pc[p] = "ret") => Sleeps(p) = 2 /\ Gets(p) = 2

\* C8 as amended: the call completes having done exactly three sleep-then-poll
\* cycles, one for each GET, and it has not completed after the second.
C8_ThreeCycles ==
    \A p \in Callers :
        /\ C8_Case(p) =>
              /\ Sleeps(p) = 3 /\ Gets(p) = 3
              /\ [i \in 1..Len(trace[p]) |-> trace[p][i].m]
                    = <<"PATCH", "sleep", "GET", "sleep", "GET", "sleep", "GET">>
                 \/ [i \in 1..Len(trace[p]) |-> trace[p][i].m]
                    = <<"PUT", "sleep", "GET", "sleep", "GET", "sleep", "GET">>
              /\ pc[p] \in {"loop", "ret"}
              /\ pc[p] = "ret" => err[p] = "nil"
        /\ pollLog[p] = <<"PENDING", "PENDING">> => err[p] # "nil"

C8_Witness == \E p \in Callers : C8_Case(p) /\ pc[p] = "ret" /\ err[p] = "nil"

\* The case of C9: BlacklistIP(v) has sent its list, and the call before it
\* was WhitelistIP(name, v).
C9_Case(p) ==
    /\ call[p].op = "BlacklistIP" /\ Mutations(p) = 1
    /\ prev.op = "WhitelistIP" /\ prev.value = call[p].value

\* C9: the list sent has no entry with value v, and every other entry of
\* the instance's list (no step changes networks) as often as the list has it.
C9_WhitelistThenBlacklist ==
    \A p \in Callers :
        C9_Case(p) =>
            LET sent == trace[p][1].body.nets
                had == RenderNetworks(networks)
            IN  /\ trace[p][1].m = "PATCH"
                /\ \A i \in 1..Len(sent) : sent[i].value # call[p].value
                /\ \A i \in 1..Len(had) :
                      had[i].value # call[p].value
                          => CountIn(sent, had[i]) = CountIn(had, had[i])
                /\ Len(sent) = Cardinality({i \in 1..Len(had) : had[i].value # call[p].value})

\* The list has an entry with the value and another entry.
C9_Witness ==
    \E p \in Callers :
        /\ C9_Case(p)
        /\ Cardinality({i \in 1..Len(networks) : networks[i].Value = call[p].value}) >= 1
        /\ \E i \in 1..Len(networks) : networks[i].Value # call[p].value

\* C10: a token created with expires_in = 3600 is not expired at the instant
\* of its creation, is expired once the clock is past issue time + 3600 s,
\* and its stored expiry is issue time + expires_in.
C10_ExpiryAfterExpiresIn ==
    (token # NoToken /\ token.ExpiresIn = 3600) =>
        /\ now = token.issuedAt => ~IsExpired(token, now)
        /\ now > token.issuedAt + 3600 => IsExpired(token, now)
        /\ token.expireTime = token.issuedAt + token.ExpiresIn

\* C11: when GenerateAccessToken has returned an error, NewConnection fetches
\* nothing and returns that error, not a Connection with a nil error.
C11_CredentialErrorPropagates ==
    ctor.tokenErr \notin {"none", "nil"} =>
        /\ ctor.pc \in {"build", "returned"}
        /\ ctor.fetches = 0
        /\ ctor.pc = "returned" => ctor.err = ctor.tokenErr

\* NewConnection has returned a Connection and a nil error although
\* GenerateAccessToken failed, having sent the fetch with an empty token.
C11_UsableOnFailedCredential ==
    /\ ctor.tokenErr \notin {"none", "nil"}
    /\ Usable /\ ctor.fetches = 1 /\ ctor.bearer = ""

\* The positions of the entries of type "PRIMARY" in the address list.
PrimaryAt == {i \in 1..Len(ip.addrs) : ip.addrs[i].Type = "PRIMARY"}

\* C12: GetPublicIP returns the ipAddress of the first "PRIMARY" entry and no
\* error when there is one, and the empty string with ErrNoPublicIP exactly
\* when there is none, the empty list included.
C12_FirstPrimary ==
    ip.err # "none" =>
        /\ PrimaryAt # {} =>
              /\ ip.err = "nil"
              /\ ip.ip = ip.addrs[CHOOSE i \in PrimaryAt : \A j \in PrimaryAt : i <= j].IPAddress
        /\ PrimaryAt = {} => ip.err = "ErrNoPublicIP" /\ ip.ip = ""
        /\ ip.err = "ErrNoPublicIP" <=> PrimaryAt = {}

\* GetPublicIP was called on a list with two "PRIMARY" entries of different
\* addresses after a non-"PRIMARY" one.
C12_Witness ==
    /\ ip.err = "nil"
    /\ \E i, j \in PrimaryAt : i < j /\ ip.addrs[i].IPAddress # ip.addrs[j].IPAddress
    /\ 1 \notin PrimaryAt

\* The fields a sequence of pieces names.
Refs(pieces) == {pieces[i].v : i \in {j \in 1..Len(pieces) : pieces[j].k = "field"}}

\* A field named by the template is absent from the data record: from the
\* struct, or from an entry of the slice the template ranges over.
Lacks(tmpl, data) ==
    \/ /\ data.kind = "struct"
       /\ \E f \in Refs(tmpl.pre) \cup Refs(tmpl.post) : f \notin DOMAIN data.fields
    \/ /\ tmpl.ranged /\ data.kind = "slice"
       /\ \E i \in 1..Len(data.items) : \E f \in Refs(tmpl.item) : f \notin DOMAIN data.items[i]

\* C13: when the URL or the body template names a field that the data record
\* lacks, NewHTTPRequest returns a render error and no request, and the call
\* it was made for is on its way out with nothing sent.
C13_MissingFieldFails ==
    (render.called /\ (\/ Lacks(render.request.urlText, render.request.urlData)
                       \/ Lacks(render.request.bodyText, render.request.bodyData)))
        => /\ render.result.err = "TemplateRenderError"
           /\ render.result.req = NoBuilt
           /\ \A p \in Callers :
                 (render.by > 0 /\ call[p].id = render.by)
                     => /\ pc[p] = "ret"
                        /\ err[p] = "TemplateRenderError"
                        /\ trace[p] = <<>>
                        /\ httpRequest = NoRequest

\* A call was rendered on body data that lacks a field and is about to return.
C13_Witness ==
    /\ render.called
    /\ ~Lacks(render.request.urlText, render.request.urlData)
    /\ Lacks(render.request.bodyText, render.request.bodyData)
    /\ \E p \in Callers : render.by > 0 /\ call[p].id = render.by /\ pc[p] = "ret"

\* Every field the template names exists in the data record.
Fits(tmpl, data) ==
    IF tmpl.ranged
    THEN /\ data.kind = "slice"
         /\ Refs(tmpl.pre) \cup Refs(tmpl.post) = {}
         /\ \A i \in 1..Len(data.items) : Refs(tmpl.item) \subseteq DOMAIN data.items[i]
    ELSE \/ Refs(tmpl.pre) = {}
         \/ data.kind = "struct" /\ Refs(tmpl.pre) \subseteq DOMAIN data.fields

\* The text of a template without a range, with each field piece replaced by
\* the value of the field.
Substituted(tmpl, data) ==
    [i \in 1..Len(tmpl.pre) |->
        IF tmpl.pre[i].k = "lit" THEN tmpl.pre[i].v ELSE data.fields[tmpl.pre[i].v]]

RECURSIVE Join(_)
Join(parts) == IF parts = <<>> THEN "" ELSE Head(parts) \o Join(Tail(parts))

\* The rendered text out is the text of tmpl with the values of data in
\* place: for the template with the range, n entries in list order, a comma
\* before each entry but the first, none after the last.
Verbatim(out, tmpl, data) ==
    IF ~tmpl.ranged THEN out = Substituted(tmpl, data)
    ELSE LET n == Len(data.items)
             w == Len(tmpl.item)
             start(j) == Len(tmpl.pre) + (j - 1) * (w + 1) + 1
         IN  /\ Len(out) = Len(tmpl.pre) + n * w + (IF n = 0 THEN 0 ELSE n - 1) + Len(tmpl.post)
             /\ Cardinality({i \in 1..Len(out) : out[i] = Comma}) = IF n = 0 THEN 0 ELSE n - 1
             /\ \A j \in 1..n :
                   /\ SubSeq(out, start(j), start(j) + w - 1)
                         = Substituted(Plain(tmpl.item), Struct(data.items[j]))
                   /\ j > 1 => out[start(j) - 1] = Comma
             /\ SubSeq(out, 1, Len(tmpl.pre)) = Substituted(Plain(tmpl.pre), NilData)
             /\ SubSeq(out, Len(out) - Len(tmpl.post) + 1, Len(out))
                   = Substituted(Plain(tmpl.post), NilData)

\* Both templates of the request find their fields.
C14_Case ==
    /\ render.called
    /\ Fits(render.request.urlText, render.request.urlData)
    /\ Fits(render.request.bodyText, render.request.bodyData)

\* The request built has the rendered URL and body, values verbatim and in
\* place; project p1 and instance i1 give a URL ending in
\* /projects/p1/instances/i1.
C14_Rendered ==
    /\ render.result.err = "nil"
    /\ render.result.req.m = render.method
    /\ Verbatim(render.result.req.url, render.request.urlText, render.request.urlData)
    /\ Verbatim(render.result.req.body, render.request.bodyText, render.request.bodyData)
    /\ (/\ render.request.urlText = instanceRequestURLTemplate
        /\ render.request.urlData = Struct([ProjectID |-> "p1", InstanceName |-> "i1"]))
          => /\ Join(SubSeq(render.result.req.url, 2, 5)) = "/projects/p1/instances/i1"
             /\ Join(render.result.req.url)
                   = "https://www.googleapis.com/sql/v1beta4/projects/p1/instances/i1"

\* C14 as claimed: whenever every named field exists, NewHTTPRequest succeeds
\* with the values rendered verbatim and in place.
C14_AlwaysSucceeds == C14_Case => C14_Rendered

\* C14 as amended: whenever every named field exists, rendering succeeds;
\* NewHTTPRequest returns the request with the values verbatim and in place
\* when http.NewRequest accepts the rendered URL, and the error of
\* http.NewRequest with no request when it does not.
C14_RendersVerbatim ==
    C14_Case =>
        IF URLParses(Substituted(render.request.urlText, render.request.urlData))
        THEN C14_Rendered
        ELSE render.result.err = "RequestError" /\ render.result.req = NoBuilt

\* A list of two entries was rendered into the body of a PATCH on p1/i1.
C14_Witness ==
    /\ C14_Case
    /\ render.result.err = "nil"
    /\ render.request.bodyText = instanceRequestBodyTemplate
    /\ Len(render.request.bodyData.items) = 2
    /\ render.request.urlData = Struct([ProjectID |-> "p1", InstanceName |-> "i1"])
    /\ render.request.urlText = instanceRequestURLTemplate

\* C15: every GET of a call goes to the selfLink of the operation that the
\* call's own submission created, and a call returns nil only on the status
\* of that operation, under every interleaving of calls.
C15_PollsOwnOperation ==
    \A p \in Callers :
        /\ \A i \in 1..Len(trace[p]) :
              trace[p][i].m = "GET" => trace[p][i].url = Link(call[p].id)
        /\ (pc[p] = "ret" /\ err[p] = "nil") => response.SelfLink = Link(call[p].id)

\* A call that holds the lock has sent a GET to the operation created by the
\* SetUserPassword call running beside it.
C15_PollsOtherCall ==
    \E p, q \in Callers :
        /\ p # q /\ call[p].op \in LockedOps /\ call[q].op = "SetUserPassword"
        /\ \E i \in 1..Len(trace[p]) :
              trace[p][i].m = "GET" /\ trace[p][i].url = Link(call[q].id)

\* What p's call has put on the wire, in order.
Wire(p) == SelectSeq(trace[p], LAMBDA e : e.m # "sleep")

\* C16: a call puts one mutating request on the wire, a PATCH for EnableSSL,
\* DisableSSL, WhitelistIP and BlacklistIP and a PUT for SetUserPassword, and
\* everything after it is a GET, whatever the replies are.
C16_OneMutationFirst ==
    \A p \in Callers :
        /\ Mutations(p) <= 1
        /\ Wire(p) # <<>> =>
              /\ call[p].op \in LockedOps => Wire(p)[1].m = "PATCH"
              /\ call[p].op = "SetUserPassword" => Wire(p)[1].m = "PUT"
              /\ \A i \in 2..Len(Wire(p)) : Wire(p)[i].m = "GET"
        /\ (pc[p] \in {"wait", "loop", "sleep", "get"} \/ subReply[p] # NoReply)
              => Mutations(p) = 1

\* A call has sent its PATCH and two GETs and the second GET failed.
C16_Witness ==
    \E p \in Callers :
        /\ call[p].op \in LockedOps /\ Gets(p) = 2 /\ pc[p] = "ret"
        /\ err[p] \notin {"none", "nil"}

\* C17: in a call's trace every GET comes right after a sleep, and that sleep
\* right after the mutating request or a GET; a sleep or a GET is under way
\* only while the stored status is not "DONE" (the status is looked at again
\* after each GET that parsed); and after a submission reply of status "DONE"
\* the call sleeps and polls not at all.
C17_SleepThenGetUntilDone ==
    \A p \in Callers :
        /\ \A i \in 1..Len(trace[p]) :
              /\ trace[p][i].m = "GET" => i > 2 /\ trace[p][i - 1].m = "sleep"
              /\ trace[p][i].m = "sleep" => i > 1 /\ trace[p][i - 1].m # "sleep"
        /\ pc[p] \in {"sleep", "get"} => response.Status # "DONE"
        /\ (pc[p] = "loop" /\ Gets(p) > 0) => Sleeps(p) = Gets(p)
        /\ (SubmittedOK(p) /\ subReply[p].body.Status = "DONE")
              => /\ Sleeps(p) = 0 /\ Gets(p) = 0
                 /\ pc[p] \in {"wait", "loop", "ret"}
                 /\ pc[p] = "ret" => err[p] = "nil"

\* A call came to "DONE" on its second GET and returns with two sleeps and
\* two GETs, after an earlier call that returned nil.
C17_Witness ==
    \E p \in Callers :
        /\ pc[p] = "ret" /\ err[p] = "nil" /\ Sleeps(p) = 2 /\ Gets(p) = 2
        /\ prev.err = "nil"

\* A response document on its own: a field it does not have is empty.
Fresh(doc) == [f \in DOMAIN EmptyResponse |-> IF doc[f] = Absent THEN "" ELSE doc[f]]

\* C18: right after a submission reply or a poll reply has been parsed
\* without error, the stored operation is that reply: a field the reply does
\* not have is empty in it.
C18_StoredIsFreshResponse ==
    \A p \in Callers :
        /\ (pc[p] = "wait" /\ SubmittedOK(p)) => response = Fresh(subReply[p].body)
        /\ (pc[p] = "loop" /\ Gets(p) > 0 /\ pollLog[p][Len(pollLog[p])] = Absent)
              => response = EmptyResponse

\* C19: a call that enters waitUntilDone while the stored operation is the
\* zero Response leaves it with the empty-operation error, having slept and
\* polled not at all; and no call is in the poll loop while the stored
\* operation is empty.
C19_EmptyOperationFails ==
    /\ [](\A p \in Callers :
             /\ err[p] = "EmptyOperationError"
                   => pc[p] = "ret" /\ Sleeps(p) = 0 /\ Gets(p) = 0
             /\ pc[p] \in {"loop", "sleep", "get"} => response # EmptyResponse)
    /\ [][\A p \in Callers :
             (pc[p] = "wait" /\ response = EmptyResponse /\ pc'[p] # "wait")
                 => /\ pc'[p] = "ret"
                    /\ err'[p] = "EmptyOperationError"
                    /\ trace'[p] = trace[p]]_vars

\* A call whose submission parsed without any operation field is about to
\* return the empty-operation error.
C19_Witness ==
    \E p \in Callers :
        /\ pc[p] = "ret" /\ err[p] = "EmptyOperationError"
        /\ Mutations(p) = 1 /\ response = EmptyResponse

\* C20: GetResponse is the empty operation while NewConnection runs, when it
\* has returned, and until a call's submission reply has been parsed: the
\* stored operation stops being empty only in the step in which a mutating
\* call parses its submission reply without error.
C20_EmptyBeforeFirstSubmission ==
    /\ []((ctor.pc # "returned" \/ nCalls = 0) => GetResponse = EmptyResponse)
    /\ [][(GetResponse = EmptyResponse /\ response' # EmptyResponse)
             => \E p \in Callers : pc[p] = "submit" /\ pc'[p] = "wait"]_vars

\* The first call on a Connection that NewConnection returned is waiting for
\* its submission reply.
C20_Witness ==
    /\ Usable /\ ctor.fetches = 1
    /\ \E p \in Callers : pc[p] = "submit" /\ call[p].id = 1
    /\ GetResponse = EmptyResponse

\* The values of the entries of a rendered list.
ValuesOf(nets) == {nets[i].value : i \in 1..Len(nets)}

\* An ACL call has sent its list.
AclSent(p) == call[p].op \in {"WhitelistIP", "BlacklistIP"} /\ Mutations(p) = 1

\* C21: the list an ACL call sends right after a successful WhitelistIP
\* still has the entry that WhitelistIP added, unless the call is the
\* BlacklistIP of that value.
C21_SentListIsDesiredState ==
    \A p \in Callers :
        (/\ AclSent(p)
         /\ prev.op = "WhitelistIP" /\ prev.err = "nil"
         /\ ~(call[p].op = "BlacklistIP" /\ call[p].value = prev.value))
            => prev.value \in ValuesOf(trace[p][1].body.nets)

\* C22: on an instance whose list has no two entries of the same value, the
\* list an ACL call sends has no two entries of the same value.
C22_NoDuplicateValuesSent ==
    \A p \in Callers :
        (/\ AclSent(p)
         /\ \A i, j \in 1..Len(networks) : networks[i].Value = networks[j].Value => i = j)
            => LET sent == trace[p][1].body.nets
               IN  \A i, j \in 1..Len(sent) : sent[i].value = sent[j].value => i = j


\* The latest answer of the remote side to a call: to its latest poll, or to
\* its submission while it has not polled.
LastAnswer(p) == IF pollLog[p] # <<>> THEN pollLog[p][Len(pollLog[p])] ELSE subReply[p]

\* C23: on a remote side where every request succeeds and no call is polled
\* with non-"DONE" answers for ever, under fair scheduling every started
\* call returns and every caller waiting for the lock acquires it; and a call
\* whose requests the remote side answers with statuses other than "DONE"
\* does not return, and polls holding the lock.
C23_FairTermination ==
    /\ \A p \in Callers : (pc[p] # "idle") ~> (pc[p] = "idle")
    /\ \A p \in Callers : (pc[p] = "acquire") ~> (lock = p)
    /\ [][\A p \in Callers :
             (pc[p] \in {"loop", "sleep", "get"} /\ pc'[p] \notin {"loop", "sleep", "get"})
                 => /\ pc'[p] = "ret"
                    /\ LastAnswer(p).body.Status = "DONE" \/ err'[p] \notin {"nil", "none"}]_vars
    /\ [](\A p \in Callers :
             (call[p].op \in LockedOps /\ pc[p] \in {"loop", "sleep", "get"}) => lock = p)

\* C27: IsExpired() is true exactly when the clock has reached the stored
\* expiry, the instant of expiry included.
C27_ExpiredAtOrAfterExpiry == IsExpired(token, now) <=> now >= token.expireTime

\* C25: in the earlier variant a call that has returned, with an error of
\* rendering or submission included, does not keep the lock.
C25_FailedCallReleasesLock == \A p \in Callers : pc[p] = "idle" => lock # p

\* C26: in the earlier variant, while a call is between its submission and
\* the start of its polling it holds the lock, and no other call is between
\* its Lock() and its submission.
C26_LockHeldFromSubmitToPoll ==
    \A p \in Callers :
        pc[p] \in {"relock", "wait"} =>
            /\ lock = p
            /\ \A q \in Callers \ {p} : pc[q] \notin {"render", "submit"}

\* A call of the earlier variant polls the operation of the other call.
C26_PollsOther ==
    \E p \in Callers : \E q \in Callers \ {p} :
        /\ pc[p] = "get" /\ lock = p
        /\ call[q].op # "none" /\ pollURL[p] = Link(call[q].id)

\* The state of the mutex Connection i points to (0 while i is not constructed).
MutexOf(i) == IF conns.c[i].made THEN conns.heap[conns.c[i].lock] ELSE 0

\* C24: with two Connections of separate NewConnection calls, a caller that
\* reaches Lock() on one finds its mutex free whatever the call on the other
\* is doing, and a step of NewConnection or of a call on one Connection
\* leaves the other Connection's response, instance snapshot, mutex pointer
\* and mutex state as they were.
C24_ConnectionsIndependent ==
    /\ [](\A i \in Conns : conns.by[i].pc = "acquire" => MutexOf(i) = 0)
    /\ [][\A i \in Conns : \A j \in Conns \ {i} :
             (conns'.by[i] # conns.by[i] \/ conns'.c[i] # conns.c[i])
                 => /\ conns'.c[j] = conns.c[j]
                    /\ MutexOf(j)' = MutexOf(j)]_vars

\* C24 witness: both calls are polling at once, each holding the mutex of its
\* own Connection, and the two Connections store different operations.
C24_Witness ==
    /\ \A i \in Conns : conns.by[i].pc = "loop" /\ MutexOf(i) = i
    /\ conns.c[1].lock # conns.c[2].lock
    /\ conns.c[1].response # conns.c[2].response
    /\ conns.c[1].response.SelfLink # NoLink /\ conns.c[2].response.SelfLink # NoLink

====
